---- MODULE Spec2Model ----
(***************************************************************************)
(* The request/reply service loop of gpt.py: a ZeroMQ REP socket, the      *)
(* command registry (help, metadata, send), the chat-completion handler    *)
(* with its validation of the backend's reply, and the exception handlers  *)
(* of main().                                                              *)
(***************************************************************************)
EXTENDS Integers, Sequences, FiniteSets, TLC

VARIABLES
    pc,              \* position of main(): "loop", "dispatch", "backend", "respond", "except", "exited"
    state,           \* main's `state`: "RECEIVING" or "SENDING"
    message,         \* main's `message`: the request frame last received
    response,        \* main's `response`: the list the handler returned
    exc,             \* the exception in flight / last handled
    reply,           \* the frame last sent for the current request (<<>>: none yet)
    lastOp,          \* the last completed socket operation: "none", "recv", "send"
    replies,         \* number of frames sent since the last receive
    backendCalls,    \* number of openai.ChatCompletion.create calls since the last receive
    backendMessages, \* the `messages` argument of the last backend call
    backendReply,    \* what the backend returned for the current request
    exitStatus,      \* the process's exit status, meaningful when pc = "exited"
    socketFailed,    \* a socket operation has raised
    illegalSeen,     \* a mode check of the loop has failed
    served           \* a reply was sent for an earlier request than the one in `message`

vars == <<pc, state, message, response, exc, reply, lastOp, replies, backendCalls,
          backendMessages, backendReply, exitStatus, socketFailed, illegalSeen, served>>

----------------------------------------------------------------------------
(* Bounds of the model *)

MaxArgs == 3

MaxChoices == 2

----------------------------------------------------------------------------
(* Python values *)

\* None, and the result of dict.get on a missing key
None == "<None>"

\* truthiness of an Optional[str]: None and "" are falsy
Truthy(x) == x # None /\ x # ""

\* dict.get(key) for a dict with string values
Get(d, key) == IF key \in DOMAIN d THEN d[key] ELSE None

\* a frame part that is not valid UTF-8: bytes.decode() raises on it
BadBytes == "<0xff>"

Exception(type, msg) == [type |-> type, msg |-> msg]

NoException == [type |-> "", msg |-> "", where |-> ""]

Ok(v) == [ok |-> TRUE, val |-> v]

Err(e) == [ok |-> FALSE, exc |-> e]

----------------------------------------------------------------------------
(* Message model *)

Message(role, text) == [role |-> role, text |-> text]

to_dictionary(m) == [role |-> m.role, content |-> m.text]

SystemMessage(text) == Message("system", text)

UserMessage(text) == Message("user", text)

AssistantMessage(text) == Message("assistant", text)

ValueError(msg) == Exception("ValueError", msg)

\* build_message without the check of the role
build_message_AnyRole(role, content) == Ok(Message(role, content))

build_message(role, content) ==
    IF role = "system" THEN Ok(SystemMessage(content))
    ELSE IF role = "user" THEN Ok(UserMessage(content))
    ELSE IF role = "assistant" THEN Ok(AssistantMessage(content))
    ELSE Err(ValueError("Invalid role: " \o role))

ProtocolException(msg) == Exception("ProtocolException", msg)

ERROR_UNKNOWN_COMMAND == "ERROR_UNKNOWN_COMMAND"

ERROR_UNCATEGORISED == "ERROR_UNCATEGORISED"

StateException(s) == Exception("StateException", s)

\* the unknown-command fault raised as a plain RuntimeError
UnknownCommandException_Plain(command) ==
    Exception("RuntimeError", "unknown command " \o command)

UnknownCommandException(command) ==
    Exception("UnknownCommandException", "unknown command " \o command)

RuntimeError(msg) == Exception("RuntimeError", msg)

TimeoutDEFAULT == 300

TimeoutLONG == 30000

----------------------------------------------------------------------------
(* Command registry *)

\* a registry that a served request has taken the send entry out of
command_map_ForgetsSend ==
    [name \in (IF served THEN {"help", "metadata"} ELSE {"help", "metadata", "send"}) |->
        [handler |-> IF name = "help" THEN "list_commands" ELSE name,
         metadata |-> [description |-> "Describes the given command.",
                       timeout |-> TimeoutDEFAULT]]]

command_map ==
    [help |->
        [handler |-> "list_commands",
         metadata |-> [description |-> "Lists available service commands.",
                       timeout |-> TimeoutDEFAULT]],
     metadata |->
        [handler |-> "metadata",
         metadata |-> [description |-> "Describes the given command.",
                       timeout |-> TimeoutDEFAULT]],
     send |->
        [handler |-> "send",
         metadata |-> [description |-> "Sends a chat completion request to the OpenAI service.",
                       timeout |-> TimeoutLONG]]]

\* help listing the name the specification gives to the completion command
list_commands_Complete(arguments) == <<"help", "metadata", "complete">>

\* list(command_map().keys()): a dict keeps its insertion order
list_commands(arguments) == <<"help", "metadata", "send">>

\* json.dumps of a metadata dict
json_dumps(md) ==
    "{\"description\": \"" \o md.description \o "\", \"timeout\": " \o ToString(md.timeout) \o "}"

metadata_impl(function_name) ==
    IF function_name \in DOMAIN command_map
    THEN IF "metadata" \in DOMAIN command_map[function_name]
         THEN Ok(command_map[function_name].metadata)
         ELSE Err(RuntimeError("metadata missing for " \o function_name))
    ELSE \* `command` is the None that .get returned
         Err(UnknownCommandException("None"))

\* the list comprehension of metadata(): it stops at the first name that raises
RECURSIVE metadata_list(_)
metadata_list(arguments) ==
    IF arguments = <<>> THEN Ok(<<>>)
    ELSE LET m == metadata_impl(Head(arguments)) IN
         IF ~m.ok THEN m
         ELSE LET rest == metadata_list(Tail(arguments)) IN
              IF ~rest.ok THEN rest
              ELSE Ok(<<json_dumps(m.val)>> \o rest.val)

\* metadata() without the check for an empty argument list
metadata_EmptyAllowed(arguments) == metadata_list(arguments)

metadata(arguments) ==
    IF Len(arguments) > 0
    THEN metadata_list(arguments)
    ELSE Err(ValueError("Expected one or more commands as arguments"))

----------------------------------------------------------------------------
(* Completion adapter *)

\* the guard of send() off by one
too_few_messages_OffByOne(arguments) == Len(arguments) < 1

\* the guard of send(): fewer than two messages
too_few_messages(arguments) == Len(arguments) < 2

\* the roles of the turns exchanged
turn_message_Swapped(i, text) ==
    IF i % 2 = 0 THEN AssistantMessage(text) ELSE UserMessage(text)

\* the role given to the turn at 0-based position i of arguments[1:]
turn_message(i, text) ==
    IF i % 2 = 0 THEN UserMessage(text) ELSE AssistantMessage(text)

\* the loop of send() over enumerate(arguments[1:])
turn_messages(arguments) ==
    [i \in 1..(Len(arguments) - 1) |-> turn_message(i - 1, arguments[i + 1])]

\* dict_messages of __send_impl
dict_messages(system_message, messages) ==
    <<to_dictionary(system_message)>> \o
        [i \in 1..Len(messages) |-> to_dictionary(messages[i])]

\* a str item of __send_impl's response list (the other items are Messages)
Str(s) == [str |-> s]

\* isinstance(item, Message)
IsMessage(item) == DOMAIN item = {"role", "text"}

\* the body of the loop of __send_impl over the choices
decode_choice(choice) ==
    LET finish_reason == Get(choice, "finish_reason") IN
    IF "message" \in DOMAIN choice /\ DOMAIN choice.message # {}
    THEN LET role == Get(choice.message, "role")
             content == Get(choice.message, "content") IN
         IF Truthy(finish_reason) /\ Truthy(role) /\ Truthy(content)
         THEN LET m == build_message(role, content) IN
              IF m.ok THEN Ok(<<Str(finish_reason), m.val>>) ELSE m
         ELSE Err(ProtocolException("missing or empty: finish_reason, role or content"))
    ELSE Err(ProtocolException("missing or empty message"))

\* the loop of __send_impl: it raises at the first choice that fails
RECURSIVE decode_choices(_)
decode_choices(choices) ==
    IF choices = <<>> THEN Ok(<<>>)
    ELSE LET c == decode_choice(Head(choices)) IN
         IF ~c.ok THEN c
         ELSE LET rest == decode_choices(Tail(choices)) IN
              IF ~rest.ok THEN rest ELSE Ok(c.val \o rest.val)

\* __send_impl after the backend has returned dictionary_of_response
send_impl(dictionary_of_response) ==
    IF "choices" \in DOMAIN dictionary_of_response
          /\ Len(dictionary_of_response.choices) > 0
    THEN decode_choices(dictionary_of_response.choices)
    ELSE Err(ProtocolException("choices key missing or empty"))

\* send() keeping the Messages only
flatten_item_MessagesOnly(item) ==
    IF IsMessage(item) THEN <<item.role, item.text>> ELSE <<>>

\* what send() appends to result for one item of the response
flatten_item(item) ==
    IF IsMessage(item) THEN <<item.role, item.text>> ELSE <<item.str>>

\* the result loop of send()
RECURSIVE flatten(_)
flatten(items) ==
    IF items = <<>> THEN <<>>
    ELSE flatten_item(Head(items)) \o flatten(Tail(items))

----------------------------------------------------------------------------
(* Inputs: request frames and backend replies *)

Texts == {"Hello", "send"}

Commands == {"help", "metadata", "send", "bogus"}

SeqsUpTo(S, n) == UNION {[1..k -> S] : k \in 0..n}

\* a command alone or with one argument; send with up to MaxArgs texts; metadata
\* with two names; a command or an argument that is not valid UTF-8
Frames ==
    {<<c>> : c \in Commands}
        \cup {<<c, a>> : c \in Commands, a \in Texts \cup Commands}
        \cup {<<"send">> \o a : a \in SeqsUpTo(Texts, MaxArgs)}
        \cup {<<"metadata", a, b>> : a \in Commands, b \in Commands}
        \cup {<<BadBytes>>} \cup {<<c, BadBytes>> : c \in Commands}

ChoiceValues ==
    { [finish_reason |-> "stop", message |-> [role |-> "assistant", content |-> "Hi."]],
      [finish_reason |-> "length", message |-> [role |-> "user", content |-> "Ok"]],
      [message |-> [role |-> "assistant", content |-> "Hi."]],
      [finish_reason |-> "stop"],
      [finish_reason |-> "stop", message |-> [content |-> "Hi."]],
      [finish_reason |-> "stop", message |-> [role |-> "assistant", content |-> ""]],
      [finish_reason |-> "stop", message |-> [role |-> "tool", content |-> "Hi."]] }

BackendReplies ==
    {<<>>} \cup {[choices |-> cs] : cs \in SeqsUpTo(ChoiceValues, MaxChoices)}

NoBackendReply == [pending |-> TRUE]

----------------------------------------------------------------------------
(* The service loop of main() *)

Init ==
    /\ pc = "loop"
    /\ state = "RECEIVING"
    /\ message = <<>>
    /\ response = <<>>
    /\ exc = NoException
    /\ reply = <<>>
    /\ lastOp = "none"
    /\ replies = 0
    /\ backendCalls = 0
    /\ backendMessages = <<>>
    /\ backendReply = NoBackendReply
    /\ exitStatus = 0
    /\ socketFailed = FALSE
    /\ illegalSeen = FALSE
    /\ served = FALSE

\* an exception leaves the try block for the except clauses
Raise(e, where) ==
    /\ pc' = "except"
    /\ exc' = [type |-> e.type, msg |-> e.msg, where |-> where]

\* the handler returned its list
Return(result) ==
    /\ pc' = "respond"
    /\ response' = result

\* socket.send_multipart has sent `frame`
Sent(frame) ==
    /\ reply' = frame
    /\ lastOp' = "send"
    /\ replies' = replies + 1

\* error() sending a fixed text in place of the message
error_FixedText(code, msg) == Sent(<<"ERROR", code, "error">>)

\* ok() that sends the result only to the first request served
ok_FirstResultOnly(array) == Sent(IF served THEN <<"OK">> ELSE <<"OK">> \o array)

ok(array) == Sent(<<"OK">> \o array)

error(code, msg) == Sent(<<"ERROR", code, msg>>)

\* lines 282-286: the receive, or the illegal-state fault
Receive ==
    /\ pc = "loop"
    /\ IF state = "RECEIVING"
       THEN \E frame \in Frames :
              /\ message' = frame
              /\ state' = "SENDING"
              /\ pc' = "dispatch"
              /\ lastOp' = "recv"
              /\ response' = <<>>
              /\ exc' = NoException
              /\ reply' = <<>>
              /\ replies' = 0
              /\ backendCalls' = 0
              /\ backendMessages' = <<>>
              /\ backendReply' = NoBackendReply
              /\ served' = (served \/ lastOp = "send")
              /\ UNCHANGED <<exitStatus, socketFailed, illegalSeen>>
       ELSE /\ Raise(StateException(state), "recv")
            /\ illegalSeen' = TRUE
            /\ UNCHANGED served
            /\ UNCHANGED <<state, message, response, reply, lastOp, replies, backendCalls,
                           backendMessages, backendReply, exitStatus, socketFailed>>

\* socket.recv_multipart raises (zmq.ZMQError)
RecvFails ==
    /\ pc = "loop"
    /\ state = "RECEIVING"
    /\ Raise(Exception("ZMQError", "recv failed"), "recv")
    /\ socketFailed' = TRUE
    /\ UNCHANGED <<state, message, response, reply, lastOp, replies, backendCalls,
                   backendMessages, backendReply, exitStatus, illegalSeen, served>>

\* the call of the backend in __send_impl
CallBackend(messages) ==
    /\ pc' = "backend"
    /\ backendMessages' = messages
    /\ backendCalls' = backendCalls + 1

\* lines 288-298: decode the frame, look the command up, run the handler
\* (for send: up to the call of the backend)
Dispatch ==
    /\ pc = "dispatch"
    /\ IF \E i \in 1..Len(message) : message[i] = BadBytes
       THEN /\ Raise(Exception("UnicodeDecodeError", "'utf-8' codec can't decode byte 0xff"),
                     "decode")
            /\ UNCHANGED <<response, backendCalls, backendMessages>>
       ELSE LET command == message[1]
                arguments == Tail(message) IN
            IF command \in DOMAIN command_map
            THEN LET handler == command_map[command].handler IN
                 CASE handler = "list_commands" ->
                        /\ Return(list_commands(arguments))
                        /\ UNCHANGED <<exc, backendCalls, backendMessages>>
                   [] handler = "metadata" ->
                        LET r == metadata(arguments) IN
                        IF r.ok
                        THEN Return(r.val) /\ UNCHANGED <<exc, backendCalls, backendMessages>>
                        ELSE Raise(r.exc, "handler")
                               /\ UNCHANGED <<response, backendCalls, backendMessages>>
                   [] handler = "send" ->
                        IF too_few_messages(arguments)
                        THEN /\ Raise(ProtocolException("Expect at least system and user messages."),
                                      "handler")
                             /\ UNCHANGED <<response, backendCalls, backendMessages>>
                        ELSE /\ CallBackend(dict_messages(SystemMessage(arguments[1]),
                                                          turn_messages(arguments)))
                             /\ UNCHANGED <<response, exc>>
                   [] OTHER ->
                        /\ Raise(RuntimeError("handler missing or not valid for " \o command),
                                 "lookup")
                        /\ UNCHANGED <<response, backendCalls, backendMessages>>
            ELSE /\ Raise(UnknownCommandException("unknown command " \o command), "lookup")
                 /\ UNCHANGED <<response, backendCalls, backendMessages>>
    /\ UNCHANGED <<state, message, reply, lastOp, replies, backendReply, exitStatus,
                   socketFailed, illegalSeen, served>>

\* lines 207-229 and 196-203: the backend returns; the reply is validated and flattened
BackendReturns ==
    /\ pc = "backend"
    /\ \E r \in BackendReplies :
         /\ backendReply' = r
         /\ LET decoded == send_impl(r) IN
            IF decoded.ok
            THEN Return(flatten(decoded.val)) /\ UNCHANGED exc
            ELSE Raise(decoded.exc, "handler") /\ UNCHANGED response
    /\ UNCHANGED <<state, message, reply, lastOp, replies, backendCalls, backendMessages,
                   exitStatus, socketFailed, illegalSeen, served>>

\* the backend is called again after it has raised
BackendRaises_Retry ==
    /\ pc = "backend"
    /\ CallBackend(backendMessages)
    /\ UNCHANGED <<state, message, response, exc, reply, lastOp, replies, backendReply,
                   exitStatus, socketFailed, illegalSeen, served>>

\* openai.ChatCompletion.create raises
BackendRaises ==
    /\ pc = "backend"
    /\ Raise(Exception("OpenAIError", "backend failure"), "handler")
    /\ UNCHANGED <<state, message, response, reply, lastOp, replies, backendCalls,
                   backendMessages, backendReply, exitStatus, socketFailed, illegalSeen, served>>

\* a statement after ok() raises before the mode is flipped
SendOk_RaisesAfterSend ==
    /\ pc = "respond"
    /\ IF state = "SENDING"
       THEN /\ ok(response)
            /\ Raise(RuntimeError("after send"), "send")
            /\ UNCHANGED <<state, illegalSeen>>
       ELSE /\ Raise(StateException(state), "send")
            /\ illegalSeen' = TRUE
            /\ UNCHANGED <<state, reply, lastOp, replies>>
    /\ UNCHANGED <<message, response, backendCalls, backendMessages, backendReply,
                   exitStatus, socketFailed, served>>

\* lines 301-305: send the handler's response
SendOk ==
    /\ pc = "respond"
    /\ IF state = "SENDING"
       THEN /\ ok(response)
            /\ state' = "RECEIVING"
            /\ pc' = "loop"
            /\ UNCHANGED <<exc, illegalSeen>>
       ELSE /\ Raise(StateException(state), "send")
            /\ illegalSeen' = TRUE
            /\ UNCHANGED <<state, reply, lastOp, replies>>
    /\ UNCHANGED <<message, response, backendCalls, backendMessages, backendReply,
                   exitStatus, socketFailed, served>>

\* socket.send_multipart raises in ok()
SendOkFails ==
    /\ pc = "respond"
    /\ state = "SENDING"
    /\ Raise(Exception("ZMQError", "send failed"), "send")
    /\ socketFailed' = TRUE
    /\ UNCHANGED <<state, message, response, reply, lastOp, replies, backendCalls,
                   backendMessages, backendReply, exitStatus, illegalSeen, served>>

\* exit(status), and the end of main() after break
Exit(status) ==
    /\ pc' = "exited"
    /\ exitStatus' = status

\* the except clause logs the error and sends nothing
ErrorReply_LogOnly(code, msg) ==
    /\ pc' = "loop"
    /\ UNCHANGED <<state, reply, lastOp, replies, exitStatus, illegalSeen>>

\* lines 318-323 and 327-332: the error reply, or the log of the illegal state
ErrorReply(code, msg) ==
    IF state = "SENDING"
    THEN /\ error(code, msg)
         /\ state' = "RECEIVING"
         /\ pc' = "loop"
         /\ UNCHANGED <<illegalSeen, exitStatus>>
    ELSE /\ illegalSeen' = TRUE
         /\ pc' = "loop"
         /\ UNCHANGED <<state, reply, lastOp, replies, exitStatus>>

\* main() without the `except Exception` clause: the fault leaves main()
HandleException_NoGenericClause ==
    /\ pc = "except"
    /\ CASE exc.type = "KeyboardInterrupt" ->
              Exit(0) /\ UNCHANGED <<state, reply, lastOp, replies, illegalSeen>>
         [] exc.type = "StateException" ->
              Exit(1) /\ UNCHANGED <<state, reply, lastOp, replies, illegalSeen>>
         [] exc.type = "UnknownCommandException" ->
              ErrorReply(ERROR_UNKNOWN_COMMAND, "unknown command")
         [] OTHER ->
              Exit(1) /\ UNCHANGED <<state, reply, lastOp, replies, illegalSeen>>
    /\ UNCHANGED <<message, response, exc, backendCalls, backendMessages, backendReply,
                   socketFailed, served>>

\* lines 311-332: the except clauses
HandleException ==
    /\ pc = "except"
    /\ CASE exc.type = "KeyboardInterrupt" ->
              Exit(0) /\ UNCHANGED <<state, reply, lastOp, replies, illegalSeen>>
         [] exc.type = "StateException" ->
              Exit(1) /\ UNCHANGED <<state, reply, lastOp, replies, illegalSeen>>
         [] exc.type = "UnknownCommandException" ->
              ErrorReply(ERROR_UNKNOWN_COMMAND, "unknown command")
         [] OTHER ->
              ErrorReply(ERROR_UNCATEGORISED, exc.msg)
    /\ UNCHANGED <<message, response, exc, backendCalls, backendMessages, backendReply,
                   socketFailed, served>>

\* socket.send_multipart raises in error(): the exception leaves the except clause and main()
ErrorSendFails ==
    /\ pc = "except"
    /\ exc.type \notin {"KeyboardInterrupt", "StateException"}
    /\ state = "SENDING"
    /\ Exit(1)
    /\ socketFailed' = TRUE
    /\ UNCHANGED <<state, message, response, exc, reply, lastOp, replies, backendCalls,
                   backendMessages, backendReply, illegalSeen, served>>

\* the operator interrupts the process inside the try block
Interrupt ==
    /\ pc \in {"loop", "dispatch", "backend", "respond"}
    /\ Raise(Exception("KeyboardInterrupt", ""), "interrupt")
    /\ UNCHANGED <<state, message, response, reply, lastOp, replies, backendCalls,
                   backendMessages, backendReply, exitStatus, socketFailed, illegalSeen, served>>

\* build_message called on its own: `message` holds the arguments <<role, content>>,
\* `response` the Message returned, `exc` the exception raised
BuildRoles == {"system", "user", "assistant", "", "tool", "function", "System"}

BuildTexts == {"", "Hi.", "Ok", "Hello", "send", "user", "You are terse.", "{}"}

BuildInit ==
    /\ pc = "build"
    /\ message \in {<<role, text>> : role \in BuildRoles, text \in BuildTexts}
    /\ state = "RECEIVING"
    /\ response = <<>>
    /\ exc = NoException
    /\ reply = <<>>
    /\ lastOp = "none"
    /\ replies = 0
    /\ backendCalls = 0
    /\ backendMessages = <<>>
    /\ backendReply = NoBackendReply
    /\ exitStatus = 0
    /\ socketFailed = FALSE
    /\ illegalSeen = FALSE
    /\ served = FALSE

Build ==
    /\ pc = "build"
    /\ pc' = "built"
    /\ LET m == build_message(message[1], message[2]) IN
       IF m.ok
       THEN response' = m.val /\ UNCHANGED exc
       ELSE exc' = [type |-> m.exc.type, msg |-> m.exc.msg, where |-> "build"]
              /\ UNCHANGED response
    /\ UNCHANGED <<state, message, reply, lastOp, replies, backendCalls, backendMessages,
                   backendReply, exitStatus, socketFailed, illegalSeen, served>>

BuildSpec == BuildInit /\ [][Build]_vars

Step ==
    \/ Dispatch
    \/ BackendReturns
    \/ BackendRaises
    \/ SendOk
    \/ HandleException

Next ==
    \/ Receive
    \/ Step
    \/ RecvFails
    \/ SendOkFails
    \/ ErrorSendFails
    \/ Interrupt

Spec == Init /\ [][Next]_vars

\* every step of the loop that can be taken is taken: the handler and the backend return or raise
FairSpec == Spec /\ WF_vars(Step)

----------------------------------------------------------------------------
(* Properties *)

\* every part of the request frame is valid UTF-8
Decodable == message # <<>> /\ \A i \in 1..Len(message) : message[i] # BadBytes

\* the names the registry holds
Registered == {"help", "metadata", "send"}

\* a reply frame has been sent for the request held in `message`
Answered == reply # <<>>

\* the request held in `message` is a decodable completion request
CompletionRequest == Decodable /\ message[1] = "send"

\* the process was stopped by the operator's interrupt
Interrupted == pc = "exited" /\ exc.type = "KeyboardInterrupt"

\* the socket refused the error reply and the fault left main()
ErrorSendCrashed ==
    pc = "exited" /\ socketFailed /\ exc.type \notin {"KeyboardInterrupt", "StateException"}

\* the step sends a frame on the socket
SendStep == replies' = replies + 1

\* the step receives a frame from the socket
ReceiveStep == pc = "loop" /\ pc' = "dispatch"

\* C1: the completed socket operations alternate, starting with a receive: a
\* frame is sent only when the last completed operation is a receive, and a
\* frame is received only when the last one is a send or there has been none.
C1_SocketOperationsAlternate ==
    [][ /\ SendStep => lastOp = "recv"
        /\ ReceiveStep => lastOp \in {"none", "send"} ]_vars

\* C1 witness: an error reply has been sent after a handler's fault
C1_Witness ==
    lastOp = "send" /\ reply # <<>> /\ reply[1] = "ERROR" /\ exc.where = "handler"

\* the request is malformed: unknown command, too few arguments, unregistered metadata name
Malformed ==
    /\ Decodable
    /\ \/ message[1] \notin Registered
       \/ message[1] = "send" /\ Len(message) < 3
       \/ message[1] = "metadata" /\ Len(message) < 2
       \/ message[1] = "metadata" /\ \E i \in 2..Len(message) : message[i] \notin Registered

WellFormedReply ==
    \/ reply[1] = "OK"
    \/ /\ Len(reply) = 3
       /\ reply[1] = "ERROR"
       /\ reply[2] \in {ERROR_UNKNOWN_COMMAND, ERROR_UNCATEGORISED}

\* C2: every request received is eventually answered (unless the operator
\* interrupts the process or the socket refuses the error reply), by exactly
\* one frame, which is an OK frame or a three-part ERROR frame; the step that
\* sends it leaves the loop at its head in RECEIVING; a malformed request is
\* answered with an ERROR frame.
C2_EveryRequestAnsweredOnce ==
    /\ [](replies <= 1)
    /\ [](Answered => WellFormedReply)
    /\ [](Answered /\ Malformed => reply[1] = "ERROR")
    /\ [][SendStep => (pc' = "loop" /\ state' = "RECEIVING")]_vars
    /\ [](lastOp = "recv" => <>(replies = 1 \/ Interrupted \/ ErrorSendCrashed))

\* C2 witness: a malformed request has been answered and the loop is ready to receive
C2_Witness ==
    /\ Malformed /\ Answered /\ reply[1] = "ERROR"
    /\ pc = "loop" /\ state = "RECEIVING" /\ replies = 1

\* C3: once a mode check of the loop has failed, the process is exiting with a
\* non-zero status (the illegal-state fault is in flight, or the process has exited).
C3_IllegalStateIsFatal ==
    illegalSeen =>
        \/ pc = "except" /\ exc.type = "StateException"
        \/ pc = "exited" /\ exitStatus # 0

\* C4 as stated: every fault of a handler other than the illegal-state fault
\* is answered with ERROR_UNCATEGORISED and the fault's message.
C4_EveryHandlerFaultUncategorised ==
    (Answered /\ exc.where = "handler" /\ exc.type # "StateException")
        => reply = <<"ERROR", ERROR_UNCATEGORISED, exc.msg>>

\* C4 amended: a fault of a handler that is neither the illegal-state fault nor
\* the unknown-command fault is answered with ERROR_UNCATEGORISED and the
\* fault's message; the unknown-command fault of a handler is answered with a
\* three-part ERROR frame carrying ERROR_UNKNOWN_COMMAND; in both cases the loop
\* is back at its head in RECEIVING, and the process exits on a handler's fault
\* only when the socket refuses the error reply.
C4_HandlerFaultCaught ==
    /\ (Answered /\ exc.where = "handler")
          => /\ pc = "loop" /\ state = "RECEIVING"
             /\ message[1] \in Registered
             /\ IF exc.type = "UnknownCommandException"
                THEN Len(reply) = 3 /\ reply[1] = "ERROR" /\ reply[2] = ERROR_UNKNOWN_COMMAND
                ELSE reply = <<"ERROR", ERROR_UNCATEGORISED, exc.msg>>
    /\ (exc.where = "handler" /\ ~Answered) => (pc = "except" \/ ErrorSendCrashed)

\* C4 witness: the backend's failure has been reported and the loop goes on
C4_Witness ==
    /\ pc = "loop"
    /\ exc = [type |-> "OpenAIError", msg |-> "backend failure", where |-> "handler"]
    /\ reply = <<"ERROR", ERROR_UNCATEGORISED, "backend failure">>

\* C5: the reply to a request for an unregistered command c is
\* ["ERROR", "ERROR_UNKNOWN_COMMAND", "unknown command c"].
C5_UnknownCommandReplyNamesCommand ==
    (Decodable /\ message[1] \notin Registered /\ Answered)
        => reply = <<"ERROR", ERROR_UNKNOWN_COMMAND, "unknown command " \o message[1]>>

\* the field `key` of the message of a backend choice (None when absent)
ChoiceField(choice, key) ==
    IF "message" \in DOMAIN choice THEN Get(choice.message, key) ELSE None

\* the choices of the backend's reply (none when the key is absent or no reply came)
ChoicesOf(r) == IF "choices" \in DOMAIN r THEN r.choices ELSE <<>>

\* role and text of each choice, in the backend's order
RoleTextPairs(choices) ==
    [i \in 1..(2 * Len(choices)) |->
        IF i % 2 = 1 THEN ChoiceField(choices[(i + 1) \div 2], "role")
        ELSE ChoiceField(choices[i \div 2], "content")]

\* finish_reason, role and text of each choice, in the backend's order
ReasonRoleTextTriples(choices) ==
    [i \in 1..(3 * Len(choices)) |->
        CASE i % 3 = 1 -> Get(choices[(i + 2) \div 3], "finish_reason")
          [] i % 3 = 2 -> ChoiceField(choices[(i + 1) \div 3], "role")
          [] OTHER -> ChoiceField(choices[i \div 3], "content")]

\* the completion request held in `message` has been answered with an OK frame
CompletionSucceeded == CompletionRequest /\ Answered /\ reply[1] = "OK"

\* C6 as stated: the OK reply to a completion request carries two strings per
\* backend choice, role and text, in the backend's order.
C6_ReplyIsRoleTextPairs ==
    CompletionSucceeded => reply = <<"OK">> \o RoleTextPairs(ChoicesOf(backendReply))

\* C6 amended: the OK reply to a completion request carries three strings per
\* backend choice, finish_reason, role and text, in the backend's order.
C6_ReplyIsReasonRoleTextTriples ==
    CompletionSucceeded
        => /\ ChoicesOf(backendReply) # <<>>
           /\ reply = <<"OK">> \o ReasonRoleTextTriples(ChoicesOf(backendReply))

\* C6 witness: two choices were returned and both are in the reply, in order
C6_Witness ==
    /\ CompletionRequest
    /\ Len(ChoicesOf(backendReply)) = 2
    /\ reply = <<"OK", "length", "user", "Ok", "stop", "assistant", "Hi.">>

\* the request held in `message` is a completion request with fewer than 2 arguments
TooFewArguments == CompletionRequest /\ Len(message) - 1 < 2

\* C7: while a completion request with fewer than 2 arguments is processed the
\* backend is not called, the handler returns no result, and the fault the
\* handler raises is the invalid-arguments error.
C7_TooFewArgumentsNeverReachBackend ==
    TooFewArguments
        => /\ backendCalls = 0
           /\ backendMessages = <<>>
           /\ backendReply = NoBackendReply
           /\ pc \notin {"backend", "respond"}
           /\ (pc # "dispatch" /\ exc.where \notin {"interrupt", "recv"})
                 => exc = [type |-> "ProtocolException",
                           msg |-> "Expect at least system and user messages.",
                           where |-> "handler"]

\* C7 witness: a completion request with the system text only has been answered
C7_Witness ==
    message = <<"send", "Hello">> /\ Answered /\ backendCalls = 0

\* C8 as stated: the reply to a completion request with fewer than 2 arguments
\* carries a code dedicated to invalid requests, not one of the codes used for
\* unknown commands or for uncategorised faults.
C8_TooFewArgumentsInvalidRequestCode ==
    (TooFewArguments /\ Answered)
        => /\ Len(reply) = 3
           /\ reply[1] = "ERROR"
           /\ reply[2] \notin {ERROR_UNKNOWN_COMMAND, ERROR_UNCATEGORISED}
           /\ reply[3] = "Expect at least system and user messages."

\* C8 amended: the reply to a completion request with fewer than 2 arguments is
\* ["ERROR", "ERROR_UNCATEGORISED", "Expect at least system and user messages."].
C8_TooFewArgumentsUncategorised ==
    (TooFewArguments /\ Answered)
        => reply = <<"ERROR", ERROR_UNCATEGORISED, "Expect at least system and user messages.">>

\* C8 witness: a completion request without arguments has been answered
C8_Witness ==
    message = <<"send">> /\ Answered /\ pc = "loop"

\* a choice has a non-empty finish_reason, a message, a non-empty content and a role
\* among system, user, assistant
ValidChoice(choice) ==
    /\ "finish_reason" \in DOMAIN choice /\ choice.finish_reason # ""
    /\ "message" \in DOMAIN choice
    /\ "content" \in DOMAIN choice.message /\ choice.message.content # ""
    /\ "role" \in DOMAIN choice.message
    /\ choice.message.role \in {"system", "user", "assistant"}

ValidBackendReply(r) ==
    /\ "choices" \in DOMAIN r
    /\ r.choices # <<>>
    /\ \A i \in 1..Len(r.choices) : ValidChoice(r.choices[i])

\* C9: a completion request gets a result, and an OK reply, only when the
\* backend's reply has a non-empty choice list all of whose choices are valid;
\* when the backend's reply is not valid the handler returns nothing and the
\* reply is a three-part ERROR frame.
C9_OkOnlyForValidBackendReply ==
    CompletionRequest
        => /\ (pc = "respond" \/ (Answered /\ reply[1] = "OK")) => ValidBackendReply(backendReply)
           /\ (backendReply # NoBackendReply /\ ~ValidBackendReply(backendReply))
                 => /\ response = <<>>
                    /\ pc # "respond"
                    /\ Answered => (reply[1] = "ERROR" /\ Len(reply) = 3)

\* C9 witness: the second of two choices has an unknown role and the reply is an error
C9_Witness ==
    /\ CompletionRequest
    /\ Len(ChoicesOf(backendReply)) = 2
    /\ ValidChoice(backendReply.choices[1])
    /\ ChoiceField(backendReply.choices[2], "role") = "tool"
    /\ Answered /\ reply[1] = "ERROR"

\* the role of the turn at 0-based position i
TurnRole(i) == IF i % 2 = 0 THEN "user" ELSE "assistant"

\* C10: for a completion request [s, t_0, ..., t_(k-1)] with k >= 1, once the
\* handler has run, the backend has been called exactly once, with k+1
\* messages: the system message with text s, then each t_i as user (i even) or
\* assistant (i odd), in order.
C10_BackendMessagesAlternate ==
    (CompletionRequest /\ Len(message) >= 3)
        => /\ backendCalls <= 1
           /\ (pc \in {"backend", "respond"} \/ Answered \/ exc.where = "handler")
                 => /\ backendCalls = 1
                    /\ Len(backendMessages) = Len(message) - 1
                    /\ backendMessages[1] = [role |-> "system", content |-> message[2]]
                    /\ \A i \in 0..(Len(message) - 3) :
                          backendMessages[i + 2] =
                              [role |-> TurnRole(i), content |-> message[i + 3]]

\* C10 witness: a request with two turns is at the backend
C10_Witness ==
    /\ pc = "backend"
    /\ message = <<"send", "Hello", "send", "Hello">>
    /\ backendMessages = << [role |-> "system", content |-> "Hello"],
                            [role |-> "user", content |-> "send"],
                            [role |-> "assistant", content |-> "Hello"] >>

\* a reply has been sent for the request in `message`, and the exception on
\* record, if any, is one the request itself raised (no socket operation has
\* failed and no interrupt has come since the request was received)
CleanlyAnswered == Answered /\ exc.where \in {"", "decode", "lookup", "handler"}

HelpRequest == Decodable /\ message[1] = "help"

\* the parts of the reply after the first
ResultParts == {reply[i] : i \in 2..Len(reply)}

\* C11 as stated: help is answered with OK and the names help, metadata and
\* complete, each once.
C11_HelpListsComplete ==
    (HelpRequest /\ CleanlyAnswered)
        => /\ reply[1] = "OK"
           /\ Len(reply) = 4
           /\ ResultParts = {"help", "metadata", "complete"}

\* C11 amended: in every state, whatever was served before, help is answered
\* with OK and the names help, metadata and send, each once.
C11_HelpListsSend ==
    (HelpRequest /\ CleanlyAnswered)
        => /\ reply[1] = "OK"
           /\ Len(reply) = 4
           /\ ResultParts = {"help", "metadata", "send"}

\* C11 witness: help has been answered after an earlier request was served
C11_Witness ==
    /\ message = <<"help">> /\ served
    /\ reply = <<"OK", "help", "metadata", "send">>

MetadataRequest == message # <<>> /\ message[1] = "metadata"

\* json.dumps of the {description, timeout} of each registered name
ExpectedMetadata ==
    [help |-> "{\"description\": \"Lists available service commands.\", \"timeout\": 300}",
     metadata |-> "{\"description\": \"Describes the given command.\", \"timeout\": 300}",
     send |-> "{\"description\": \"Sends a chat completion request to the OpenAI service.\", \"timeout\": 30000}"]

\* C12: a metadata request with n >= 1 names, all registered, is answered with
\* OK and n strings, the i-th the JSON of the i-th name; with no name, or with
\* an unregistered name at any position, the handler returns nothing and the
\* answer is a three-part ERROR frame.
C12_MetadataPerNameOrError ==
    MetadataRequest
        => LET names == Tail(message)
               allRegistered == names # <<>> /\ \A i \in 1..Len(names) : names[i] \in Registered
           IN /\ (pc = "respond" \/ response # <<>>) => allRegistered
              /\ CleanlyAnswered
                    => IF allRegistered
                       THEN reply = <<"OK">> \o [i \in 1..Len(names) |-> ExpectedMetadata[names[i]]]
                       ELSE Len(reply) = 3 /\ reply[1] = "ERROR"

\* C12 witness: two names were asked for and their metadata came back in order
C12_Witness ==
    /\ message = <<"metadata", "send", "help">>
    /\ reply = <<"OK", ExpectedMetadata["send"], ExpectedMetadata["help"]>>

\* C13: build_message(role, text) returns the message with that role and text
\* when role is system, user or assistant, and for any other role raises the
\* invalid-role error and returns nothing.
C13_BuildRoundTrips ==
    pc = "built"
        => IF message[1] \in {"system", "user", "assistant"}
           THEN /\ response = [role |-> message[1], text |-> message[2]]
                /\ to_dictionary(response) = [role |-> message[1], content |-> message[2]]
                /\ exc = NoException
           ELSE /\ response = <<>>
                /\ exc = [type |-> "ValueError", msg |-> "Invalid role: " \o message[1],
                          where |-> "build"]

\* C13 witness: a system message and a failed build have been seen
C13_Witness ==
    /\ pc = "built"
    /\ \/ message = <<"system", "You are terse.">> /\ response # <<>>
       \/ message = <<"tool", "Hi.">> /\ exc.type = "ValueError"

\* what a client can see of the registry: the names held, the names help
\* returns, and the metadata (or the failure) of each name
RegistryView ==
    [names |-> DOMAIN command_map,
     listed |-> list_commands(<<>>),
     metadata |-> [name \in Commands |-> metadata_impl(name)]]

C15_ModeFlipsOnReceiveAndSend ==
    /\ state = "RECEIVING"
    /\ [][ /\ ReceiveStep => (state = "RECEIVING" /\ state' = "SENDING")
           /\ SendStep => (state = "SENDING" /\ state' = "RECEIVING")
           /\ state' # state => (ReceiveStep \/ SendStep)
           /\ (socketFailed' /\ ~socketFailed)
                 => state = (IF pc = "loop" THEN "RECEIVING" ELSE "SENDING") ]_vars

\* C15 witness: an OK frame has been sent and the mode is RECEIVING again
C15_Witness ==
    /\ lastOp = "send" /\ replies = 1 /\ reply[1] = "OK"
    /\ state = "RECEIVING" /\ pc = "loop"

\* the names help returns
Listed == {list_commands(<<>>)[i] : i \in 1..Len(list_commands(<<>>))}

\* a handler was called for the request held in `message`
HandlerInvoked ==
    \/ pc \in {"backend", "respond"}
    \/ response # <<>>
    \/ backendCalls > 0
    \/ exc.where = "handler"

\* the request held in `message` has been through decoding, lookup and handler
\* call, and no later receive failure or interrupt has replaced its exception
Processed == message # <<>> /\ pc # "dispatch" /\ exc.where \notin {"interrupt", "recv"}

\* C16 as stated: a handler is invoked if and only if the command name is one
\* help lists; for any other name no handler or backend call runs and the
\* reply carries ERROR_UNKNOWN_COMMAND.
C16_HandlerIffListed ==
    Processed
        => /\ HandlerInvoked <=> message[1] \in Listed
           /\ message[1] \notin Listed
                 => /\ backendCalls = 0
                    /\ Answered => (Len(reply) = 3 /\ reply[2] = ERROR_UNKNOWN_COMMAND)

\* C16 amended: for a frame whose parts are all valid UTF-8 a handler is invoked
\* if and only if the command name is one help lists, and for any other name no
\* handler or backend call runs and the reply carries ERROR_UNKNOWN_COMMAND; for
\* a frame with a part that is not valid UTF-8 no handler or backend call runs,
\* whatever the command name, and the reply carries ERROR_UNCATEGORISED.
C16_HandlerIffListedAndDecodable ==
    Processed
        => /\ HandlerInvoked <=> (Decodable /\ message[1] \in Listed)
           /\ ~HandlerInvoked
                 => /\ backendCalls = 0
                    /\ Answered
                          => /\ Len(reply) = 3 /\ reply[1] = "ERROR"
                             /\ reply[2] = (IF Decodable THEN ERROR_UNKNOWN_COMMAND
                                            ELSE ERROR_UNCATEGORISED)

\* C16 witness: an unlisted command was answered without a handler, and so was
\* a listed command whose argument is not valid UTF-8
C16_Witness ==
    /\ Answered /\ Processed /\ ~HandlerInvoked
    /\ \/ message = <<"bogus", "Hello">> /\ reply[2] = ERROR_UNKNOWN_COMMAND
       \/ message = <<"help", BadBytes>> /\ reply[2] = ERROR_UNCATEGORISED

\* C17: the backend is called at most once per request, exactly once for a
\* completion request with at least two arguments and never for another
\* request; a backend call that raises is not repeated and its request is
\* answered with an ERROR frame; no frame is received between a backend call
\* and the reply to its request.
C17_BackendCalledOnceNoRetry ==
    /\ [](backendCalls <= 1)
    /\ [](Processed => (backendCalls = 1 <=> (CompletionRequest /\ Len(message) >= 3)))
    /\ [][(pc = "backend" /\ exc'.type = "OpenAIError")
             => (pc' = "except" /\ backendCalls' = backendCalls)]_vars
    /\ []((Answered /\ exc.type = "OpenAIError")
             => reply = <<"ERROR", ERROR_UNCATEGORISED, exc.msg>>)
    /\ [][ReceiveStep => (backendCalls = 0 \/ Answered)]_vars

\* C17 witness: the one backend call of a request raised and the ERROR frame is out
C17_Witness ==
    /\ backendCalls = 1 /\ backendReply = NoBackendReply
    /\ exc.type = "OpenAIError" /\ replies = 1 /\ reply[1] = "ERROR"

\* the frame sent for request frame m when the backend's outcome is b (the
\* backend's reply, or NoBackendReply when the call raised or was not made)
ReplyFor(m, b) ==
    LET arguments == Tail(m) IN
    IF \E i \in 1..Len(m) : m[i] = BadBytes
    THEN <<"ERROR", ERROR_UNCATEGORISED, "'utf-8' codec can't decode byte 0xff">>
    ELSE IF m[1] = "help" THEN <<"OK", "help", "metadata", "send">>
    ELSE IF m[1] = "metadata"
    THEN IF arguments = <<>>
         THEN <<"ERROR", ERROR_UNCATEGORISED, "Expected one or more commands as arguments">>
         ELSE IF \A i \in 1..Len(arguments) : arguments[i] \in Registered
         THEN <<"OK">> \o [i \in 1..Len(arguments) |-> ExpectedMetadata[arguments[i]]]
         ELSE <<"ERROR", ERROR_UNKNOWN_COMMAND, "unknown command">>
    ELSE IF m[1] = "send"
    THEN IF Len(arguments) < 2
         THEN <<"ERROR", ERROR_UNCATEGORISED, "Expect at least system and user messages.">>
         ELSE IF b = NoBackendReply
         THEN <<"ERROR", ERROR_UNCATEGORISED, "backend failure">>
         ELSE IF ValidBackendReply(b)
         THEN <<"OK">> \o ReasonRoleTextTriples(b.choices)
         ELSE <<"ERROR", ERROR_UNCATEGORISED, send_impl(b).exc.msg>>
    ELSE <<"ERROR", ERROR_UNKNOWN_COMMAND, "unknown command">>

\* the payload the backend gets for request frame m: the system text, then the
\* turns of m tagged user and assistant by position
PayloadFor(m) ==
    [i \in 1..(Len(m) - 1) |->
        [role |-> IF i = 1 THEN "system" ELSE TurnRole(i - 2), content |-> m[i + 1]]]

\* C18: the frame sent for a request is a function of the request's frame and
\* of the backend's outcome for it, and the payload the backend gets is a
\* function of the request's frame: neither depends on what was served before.
C18_ReplyDependsOnRequestOnly ==
    /\ CleanlyAnswered => reply = ReplyFor(message, backendReply)
    /\ backendCalls > 0 => backendMessages = PayloadFor(message)
    /\ pc = "dispatch" => (response = <<>> /\ backendMessages = <<>> /\ reply = <<>>)

\* C18 witness: after an earlier request was served, a completion request got
\* the triples of its own backend reply
C18_Witness ==
    /\ served /\ CleanlyAnswered
    /\ message = <<"send", "Hello", "send", "Hello">>
    /\ backendMessages = PayloadFor(message)
    /\ reply = <<"OK", "stop", "assistant", "Hi.">>

\* C19: as long as no socket operation has failed, no mode check has failed: the
\* mode is RECEIVING at the top of the loop and SENDING wherever an OK or ERROR
\* frame is about to be sent, the illegal-state fault is never raised, the
\* "Illegal state" branches are never taken, and the process exits only on
\* the operator's interrupt.
C19_NoIllegalStateWithoutSocketFailure ==
    ~socketFailed
        => /\ ~illegalSeen
           /\ exc.type # "StateException"
           /\ pc = "loop" => state = "RECEIVING"
           /\ pc \in {"dispatch", "backend", "respond"} => state = "SENDING"
           /\ (pc = "except" /\ exc.type # "KeyboardInterrupt") => state = "SENDING"
           /\ pc = "exited" => (exitStatus = 0 /\ exc.type = "KeyboardInterrupt")

\* C19 witness: with no socket failure so far, a fault is about to be answered
\* in SENDING after an earlier request was served
C19_Witness ==
    /\ ~socketFailed /\ served
    /\ pc = "except" /\ exc.where = "lookup" /\ state = "SENDING"

\* an ERROR frame is out for the request in `message`, and the exception on
\* record is the one it answers
ErrorAnswered ==
    Answered /\ reply[1] = "ERROR" /\ exc.where \notin {"interrupt", "recv"}

\* the command name is not registered, or the metadata handler met a name
\* that is not registered
UnknownName ==
    \/ message[1] \notin Registered \cup {BadBytes}
    \/ /\ Decodable /\ message[1] = "metadata"
       /\ \E i \in 2..Len(message) : message[i] \notin Registered

\* C20 as stated: an ERROR frame carries one of the two codes;
\* ERROR_UNKNOWN_COMMAND exactly when the command name is unregistered or the
\* metadata handler is given an unregistered name; any other failure
\* ERROR_UNCATEGORISED with the fault's message as third part.
C20_CodeByFault ==
    ErrorAnswered
        => /\ Len(reply) = 3
           /\ reply[2] \in {ERROR_UNKNOWN_COMMAND, ERROR_UNCATEGORISED}
           /\ reply[2] = ERROR_UNKNOWN_COMMAND <=> UnknownName
           /\ reply[2] = ERROR_UNCATEGORISED => reply[3] = exc.msg

\* C20 amended: an ERROR frame carries one of the two codes; for a frame whose
\* parts are all valid UTF-8, ERROR_UNKNOWN_COMMAND exactly when the command
\* name is unregistered or the metadata handler is given an unregistered name;
\* any other failure, a part that is not valid UTF-8 included (whatever the
\* command name), ERROR_UNCATEGORISED with the fault's message as third part.
C20_CodeByFaultOfDecodedFrame ==
    ErrorAnswered
        => /\ Len(reply) = 3
           /\ reply[2] \in {ERROR_UNKNOWN_COMMAND, ERROR_UNCATEGORISED}
           /\ reply[2] = ERROR_UNKNOWN_COMMAND <=> (Decodable /\ UnknownName)
           /\ reply[2] = ERROR_UNCATEGORISED => reply[3] = exc.msg
           /\ exc.type = "UnknownCommandException" <=> reply[2] = ERROR_UNKNOWN_COMMAND

\* C20 witness: an unregistered command with an argument that is not valid
\* UTF-8 was answered with the generic code and the decoder's message
C20_Witness ==
    /\ message = <<"bogus", BadBytes>>
    /\ reply = <<"ERROR", ERROR_UNCATEGORISED, exc.msg>>
    /\ exc.type = "UnicodeDecodeError"

====
